---------------------------- MODULE Spec2Model ----------------------------
(***************************************************************************)
(* Model of the artifact normalization / validation scripts:               *)
(*   scripts/normalize-drafts.mjs   (split, classify with retry, sanitize, *)
(*                                   dedup, serialize, write)              *)
(*   scripts/validate-artifacts.mjs (parseFrontmatter, validateFile)       *)
(*                                                                         *)
(* A JavaScript string is a sequence of one-character strings, so that     *)
(* trimming, splitting, JSON encoding and hashing are computed character   *)
(* by character.  A JavaScript value of unknown type is a tagged record    *)
(* (Str, Arr, Num, Bool, Null, Undef, Obj).                                *)
(***************************************************************************)
EXTENDS Integers, Sequences, FiniteSets, TLC

VARIABLES
    \* ---- normalize-drafts.mjs main(): one run of the pipeline
    cfg,          \* [dryRun, apiKey, forceLane]: flags and environment of the run
    files,        \* the listing: the raw text of each draft, in listing order
    idx,          \* position of the for-loop in files (1-based)
    pc,           \* where main() is
    attempt,      \* the retry loop's counter
    normalized,   \* the variable normalized of the loop body (a JS value)
    handed,       \* the value of normalized when the guard steps began
    seenHashes,   \* the dedup set of this run
    written,      \* output directory: document -> [rec, text], or NotWritten
    skipped,      \* the documents skipped as duplicates
    contents,     \* document -> <<the string fingerprinted for it>>, <<>> before
    calls,        \* outcomes of the remote calls made for the current document
    delays,       \* backoff delays (ms) slept for the current document
    timer,        \* the pending setTimeout: [delay, elapsed] in ms
    inflight,     \* number of remote requests in flight
    \* ---- harness for the pure functions (heuristic, codec, validator)
    hIn,          \* the input drawn in Init
    hOut,         \* the function's result
    hPc,          \* "in" before the function is applied, "out" after
    \* ---- normalize-drafts.mjs run again over the same directory
    run,          \* number of the current run of main() (1-based)
    \* ---- validate-artifacts.mjs main(): one run of the validator
    vArgs,        \* [dirExists, strict]: the target directory and --strict
    vFiles,       \* walk(targetDir): [name, md] of each file, in walk order
    vIdx,         \* position of the first for-loop in vFiles (1-based)
    results,      \* the array results: [file, errors] per file read
    slugSeen,     \* the Map slugSeen, in insertion order: [slug, arr]
    vPc,          \* where the validator's main() is
    exitCode,     \* the process exit status, NoExit while running
    \* ---- extract-features.mjs main() and processFile(): one run
    xCfg,         \* [dryRun, apiKey]: flag and environment of the run
    xFiles,       \* the listing of the input directory, in listing order
    xIdx,         \* position of the for-loop of main() in xFiles (1-based)
    xPc,          \* where main() / processFile() is
    xI,           \* the counter i of the chat retry loop
    features,     \* the variable features of processFile (a JS value)
    xCalls,       \* remote calls made for the current file: [kind, ok]
    xDelays,      \* delays (ms) waited for the current file, pause included
    xTimer,       \* the pending setTimeout: [delay, elapsed] in ms
    xInflight,    \* number of remote requests in flight
    xWritten      \* output directory: file -> the value serialized, or Undef

vars == <<cfg, files, idx, pc, attempt, normalized, handed, seenHashes,
          written, skipped, contents, calls, delays, timer, inflight,
          hIn, hOut, hPc, run, vArgs, vFiles, vIdx, results, slugSeen, vPc, exitCode,
          xCfg, xFiles, xIdx, xPc, xI, features, xCalls, xDelays, xTimer, xInflight,
          xWritten>>

pipeVars == <<cfg, files, idx, pc, attempt, normalized, handed, seenHashes,
              written, skipped, contents, calls, delays, timer, inflight>>

hVars == <<hIn, hOut, hPc>>

valVars == <<vArgs, vFiles, vIdx, results, slugSeen, vPc, exitCode>>

xVars == <<xCfg, xFiles, xIdx, xPc, xI, features, xCalls, xDelays, xTimer, xInflight,
           xWritten>>

\* the variables of the other scripts and of later runs
otherVars == <<run, valVars, xVars>>

-----------------------------------------------------------------------------
(* Characters *)

LowerLetters == <<"a","b","c","d","e","f","g","h","i","j","k","l","m",
                  "n","o","p","q","r","s","t","u","v","w","x","y","z">>

UpperLetters == <<"A","B","C","D","E","F","G","H","I","J","K","L","M",
                  "N","O","P","Q","R","S","T","U","V","W","X","Y","Z">>

DigitChars == <<"0","1","2","3","4","5","6","7","8","9">>

\* U+2026, the character main() appends to truncated content
Ellipsis == "<U+2026>"

Pos(c, seq) == IF \E i \in 1..Len(seq) : seq[i] = c
               THEN CHOOSE i \in 1..Len(seq) : seq[i] = c
               ELSE 0

LowerSet == {LowerLetters[i] : i \in 1..Len(LowerLetters)}

UpperSet == {UpperLetters[i] : i \in 1..Len(UpperLetters)}

DigitSet == {DigitChars[i] : i \in 1..Len(DigitChars)}

IsLower(c) == c \in LowerSet

IsUpper(c) == c \in UpperSet

IsDigit(c) == c \in DigitSet

\* the regex class \s, for the characters the model uses
IsSpace(c) == c \in {" ", "\n", "\r", "\t"}

\* the regex class \w
IsWordChar(c) == c \in LowerSet \/ c \in UpperSet \/ c \in DigitSet \/ c = "_"

lowerOf == [c \in UpperSet |-> LowerLetters[Pos(c, UpperLetters)]]

upperOf == [c \in LowerSet |-> UpperLetters[Pos(c, LowerLetters)]]

ToLowerChar(c) == IF c \in UpperSet THEN lowerOf[c] ELSE c

ToUpperChar(c) == IF c \in LowerSet THEN upperOf[c] ELSE c

\* the other characters the model uses, with their UTF-16 code units
OtherCodes ==
    << <<"\t", 9>>, <<"\n", 10>>, <<"\r", 13>>, <<" ", 32>>, <<"!", 33>>,
       <<"\"", 34>>, <<"*", 42>>, <<"+", 43>>, <<",", 44>>, <<"-", 45>>,
       <<".", 46>>, <<"/", 47>>, <<":", 58>>, <<"<", 60>>, <<">", 62>>,
       <<"[", 91>>, <<"\\", 92>>, <<"]", 93>>, <<"_", 95>>, <<"{", 123>>,
       <<"}", 125>>, <<Ellipsis, 8230>> >>

codeOf ==
    [c \in LowerSet \cup UpperSet \cup DigitSet
            \cup {OtherCodes[i][1] : i \in 1..Len(OtherCodes)} |->
        IF c \in LowerSet THEN 96 + Pos(c, LowerLetters)
        ELSE IF c \in UpperSet THEN 64 + Pos(c, UpperLetters)
        ELSE IF c \in DigitSet THEN 47 + Pos(c, DigitChars)
        ELSE OtherCodes[CHOOSE i \in 1..Len(OtherCodes) : OtherCodes[i][1] = c][2]]

\* String.prototype.charCodeAt for one character
charCode(c) == codeOf[c]

-----------------------------------------------------------------------------
(* String.prototype and Array.prototype methods, as the scripts use them *)

Min(a, b) == IF a < b THEN a ELSE b

\* s.slice(from) / s.slice(0, n), with 0-based from as in JavaScript
sliceFrom(s, from) == SubSeq(s, from + 1, Len(s))

sliceTo(s, n) == SubSeq(s, 1, Min(n, Len(s)))

toLowerCase(s) == [i \in 1..Len(s) |-> ToLowerChar(s[i])]

trim(s) ==
    LET keep == {i \in 1..Len(s) : ~IsSpace(s[i])}
    IN  IF keep = {} THEN <<>>
        ELSE SubSeq(s, CHOOSE i \in keep : \A j \in keep : i <= j,
                       CHOOSE i \in keep : \A j \in keep : j <= i)

startsWith(s, pat) == Len(s) >= Len(pat) /\ SubSeq(s, 1, Len(pat)) = pat

\* s.indexOf(pat, from): 0-based position of the first occurrence at or
\* after from, -1 when there is none
indexOf(s, pat, from) ==
    LET hits == {i \in from..(Len(s) - Len(pat)) :
                    SubSeq(s, i + 1, i + Len(pat)) = pat}
    IN  IF hits = {} THEN -1 ELSE CHOOSE i \in hits : \A j \in hits : i <= j

includes(s, pat) == indexOf(s, pat, 0) # -1

\* arr.includes(x) for a sequence
arrIncludes(arr, x) == \E i \in 1..Len(arr) : arr[i] = x

\* the elements lo..hi of arr joined with sep (halving keeps the nesting of
\* the evaluation logarithmic in the length)
RECURSIVE joinRange(_, _, _, _)
joinRange(arr, sep, lo, hi) ==
    IF lo > hi THEN <<>>
    ELSE IF lo = hi THEN arr[lo]
    ELSE LET mid == (lo + hi) \div 2
         IN  joinRange(arr, sep, lo, mid) \o sep \o joinRange(arr, sep, mid + 1, hi)

\* arr.join(sep)
join(arr, sep) == joinRange(arr, sep, 1, Len(arr))

\* s.split(' '): every single space separates
RECURSIVE splitChar(_, _)
splitChar(s, sep) ==
    LET i == Pos(sep, s)
    IN  IF i = 0 THEN <<s>>
        ELSE <<SubSeq(s, 1, i - 1)>> \o splitChar(SubSeq(s, i + 1, Len(s)), sep)

\* s.split(/\r?\n/)
RECURSIVE splitLines(_)
splitLines(s) ==
    LET i == Pos("\n", s)
    IN  IF i = 0 THEN <<s>>
        ELSE <<IF i > 1 /\ s[i - 1] = "\r" THEN SubSeq(s, 1, i - 2)
               ELSE SubSeq(s, 1, i - 1)>>
             \o splitLines(SubSeq(s, i + 1, Len(s)))

\* length of the maximal run of whitespace starting at position i (1-based)
RECURSIVE spaceRun(_, _)
spaceRun(s, i) ==
    IF i > Len(s) \/ ~IsSpace(s[i]) THEN 0 ELSE 1 + spaceRun(s, i + 1)

\* the elements of a set of integers that lie in lo..hi, in increasing order
\* (halving keeps the nesting of the evaluation logarithmic)
RECURSIVE seqOfRange(_, _, _)
seqOfRange(S, lo, hi) ==
    IF lo > hi THEN <<>>
    ELSE IF lo = hi THEN (IF lo \in S THEN <<lo>> ELSE <<>>)
    ELSE LET mid == (lo + hi) \div 2
         IN  seqOfRange(S, lo, mid) \o seqOfRange(S, mid + 1, hi)

\* s.split(/\s+/): the pieces between the maximal runs of whitespace; piece k
\* starts after run k - 1 and ends before run k
splitWs(s) ==
    LET n == Len(s)
        sp == {i \in 1..n : IsSpace(s[i])}
        runStarts == seqOfRange({i \in sp : (i - 1) \notin sp}, 1, n)
        runEnds == seqOfRange({i \in sp : (i + 1) \notin sp}, 1, n)
    IN  [k \in 1..(Len(runStarts) + 1) |->
            SubSeq(s, IF k = 1 THEN 1 ELSE runEnds[k - 1] + 1,
                      IF k <= Len(runStarts) THEN runStarts[k] - 1 ELSE n)]

\* s.replace(/\s+/g, rep): every maximal run of whitespace becomes rep
RECURSIVE replaceWsRuns(_, _)
replaceWsRuns(s, rep) ==
    IF s = <<>> THEN <<>>
    ELSE IF IsSpace(s[1])
         THEN rep \o replaceWsRuns(SubSeq(s, 1 + spaceRun(s, 1), Len(s)), rep)
         ELSE <<s[1]>> \o replaceWsRuns(Tail(s), rep)

\* s.replace(/\s{2,}/g, ' '): runs of two or more become one space
RECURSIVE collapseWs2(_)
collapseWs2(s) ==
    IF s = <<>> THEN <<>>
    ELSE IF IsSpace(s[1])
         THEN LET n == spaceRun(s, 1)
              IN  (IF n >= 2 THEN <<" ">> ELSE <<s[1]>>)
                  \o collapseWs2(SubSeq(s, 1 + n, Len(s)))
         ELSE <<s[1]>> \o collapseWs2(Tail(s))

\* s.replace(/[...]/g, ''): the characters of s outside the class, in order
RECURSIVE stripChars(_, _)
stripChars(s, class) ==
    IF s = <<>> THEN <<>>
    ELSE (IF s[1] \in class THEN <<>> ELSE <<s[1]>>) \o stripChars(Tail(s), class)

\* Array.from(new Set(arr)): first occurrences, insertion order kept
RECURSIVE uniq(_)
uniq(arr) ==
    IF arr = <<>> THEN <<>>
    ELSE LET init == uniq(SubSeq(arr, 1, Len(arr) - 1))
             x == arr[Len(arr)]
         IN  IF arrIncludes(init, x) THEN init ELSE Append(init, x)

-----------------------------------------------------------------------------
(* JavaScript values *)

Str(s) == [t |-> "str", s |-> s]

Arr(a) == [t |-> "arr", a |-> a]

Num(n) == [t |-> "num", n |-> n]

Bool(b) == [t |-> "bool", b |-> b]

Null == [t |-> "null"]

Undef == [t |-> "undef"]

\* an object with the properties the scripts read; an absent one is Undef
Obj(title, lane, status, tags, source_refs, summary, publish_targets, content) ==
    [t |-> "obj", title |-> title, lane |-> lane, status |-> status,
     tags |-> tags, source_refs |-> source_refs, summary |-> summary,
     publish_targets |-> publish_targets, content |-> content]

\* ToBoolean
truthy(v) ==
    CASE v.t = "str" -> v.s # <<>>
      [] v.t = "num" -> v.n # 0
      [] v.t = "bool" -> v.b
      [] v.t \in {"null", "undef"} -> FALSE
      [] OTHER -> TRUE

\* decimal digits of a natural number
RECURSIVE natDigits(_)
natDigits(n) ==
    IF n < 10 THEN <<DigitChars[n + 1]>>
    ELSE natDigits(n \div 10) \o <<DigitChars[(n % 10) + 1]>>

\* Number.prototype.toString(16) of a natural number
RECURSIVE toString16(_)
toString16(n) ==
    LET hex == DigitChars \o <<"a","b","c","d","e","f">>
    IN  IF n < 16 THEN <<hex[n + 1]>>
        ELSE toString16(n \div 16) \o <<hex[(n % 16) + 1]>>

\* String(v)
RECURSIVE String(_)
String(v) ==
    CASE v.t = "str" -> v.s
      [] v.t = "num" -> IF v.n < 0 THEN <<"-">> \o natDigits(-v.n) ELSE natDigits(v.n)
      [] v.t = "bool" -> IF v.b THEN <<"t","r","u","e">> ELSE <<"f","a","l","s","e">>
      [] v.t = "null" -> <<"n","u","l","l">>
      [] v.t = "undef" -> <<"u","n","d","e","f","i","n","e","d">>
      [] v.t = "arr" ->
            join([i \in 1..Len(v.a) |->
                    IF v.a[i].t \in {"null", "undef"} THEN <<>> ELSE String(v.a[i])],
                 <<",">>)
      [] OTHER -> <<"[","o","b","j","e","c","t"," ","O","b","j","e","c","t","]">>

\* a || b
orElse(a, b) == IF truthy(a) THEN a ELSE b

\* /(diagram|graph|visual|schematic|svg)/
laneKeywordsB ==
    << <<"d","i","a","g","r","a","m">>,
       <<"g","r","a","p","h">>,
       <<"v","i","s","u","a","l">>,
       <<"s","c","h","e","m","a","t","i","c">>,
       <<"s","v","g">> >>

\* /(prompt|rubric|template)/
laneKeywordsC ==
    << <<"p","r","o","m","p","t">>,
       <<"r","u","b","r","i","c">>,
       <<"t","e","m","p","l","a","t","e">> >>

\* /(schema|json|code|task graph|api)/
laneKeywordsD ==
    << <<"s","c","h","e","m","a">>,
       <<"j","s","o","n">>,
       <<"c","o","d","e">>,
       <<"t","a","s","k"," ","g","r","a","p","h">>,
       <<"a","p","i">> >>

\* /(insight|note|reflection|aphorism)/
laneKeywordsE ==
    << <<"i","n","s","i","g","h","t">>,
       <<"n","o","t","e">>,
       <<"r","e","f","l","e","c","t","i","o","n">>,
       <<"a","p","h","o","r","i","s","m">> >>

\* the words heuristicNormalize harvests as tags
heuristicTagWords ==
    << <<"k","e","r","n","e","l">>,
       <<"h","e","u","r","i","s","t","i","c">>,
       <<"p","r","o","m","p","t">>,
       <<"d","i","a","g","r","a","m">>,
       <<"a","g","e","n","t">>,
       <<"n","o","r","t","h"," ","s","t","a","r">>,
       <<"d","o","n","k","e","y">>,
       <<"a","l","p","h","a">>,
       <<"b","e","t","a">>,
       <<"g","a","m","m","a">> >>

\* the controlled vocabulary of enrichTags
tagVocab ==
    << <<"h","e","u","r","i","s","t","i","c">>,
       <<"c","h","e","c","k","l","i","s","t">>,
       <<"p","r","o","m","p","t">>,
       <<"r","u","b","r","i","c">>,
       <<"d","i","a","g","r","a","m">>,
       <<"v","i","s","u","a","l">>,
       <<"s","c","h","e","m","a">>,
       <<"j","s","o","n">>,
       <<"c","o","d","e">>,
       <<"k","e","r","n","e","l">>,
       <<"a","g","e","n","t">>,
       <<"l","o","o","p">>,
       <<"a","l","p","h","a">>,
       <<"b","e","t","a">>,
       <<"g","a","m","m","a">>,
       <<"n","o","r","t","h","-","s","t","a","r">>,
       <<"d","o","n","k","e","y">>,
       <<"t","a","s","k","-","g","r","a","p","h">>,
       <<"p","o","l","i","c","y">>,
       <<"o","r","c","h","e","s","t","r","a","t","o","r">>,
       <<"r","e","f","l","e","c","t","i","o","n">>,
       <<"i","n","s","i","g","h","t">>,
       <<"n","o","t","e">>,
       <<"s","t","r","a","t","e","g","y">>,
       <<"d","e","s","i","g","n">>,
       <<"p","a","t","t","e","r","n">> >>


S_A == <<"A">>

S_draft == <<"d","r","a","f","t">>

S_github == <<"g","i","t","h","u","b">>

S_artifact == <<"a","r","t","i","f","a","c","t">>

allowedLanes == <<Str(<<"A">>), Str(<<"B">>), Str(<<"C">>), Str(<<"D">>), Str(<<"E">>)>>

defaultFrontmatter ==
    Obj(Str(<<>>), Str(S_A), Str(S_draft), Arr(<<>>), Arr(<<>>), Str(<<>>),
        Arr(<<Str(S_github)>>), Undef)

\* regex.test(t) for an alternation of literal words
matchesAny(t, words) == \E i \in 1..Len(words) : includes(t, words[i])

\* text.slice(0, 140) in heuristicNormalize
SummaryChars == 140

\* .slice(0, 8) in heuristicNormalize
HeuristicTitleWords == 8

\* the same tests in the order E, D, C, B
heuristicLaneReversed(t) ==
    IF matchesAny(t, laneKeywordsE) THEN <<"E">>
    ELSE IF matchesAny(t, laneKeywordsD) THEN <<"D">>
    ELSE IF matchesAny(t, laneKeywordsC) THEN <<"C">>
    ELSE IF matchesAny(t, laneKeywordsB) THEN <<"B">>
    ELSE <<"A">>

\* lines 73-77
heuristicLane(t) ==
    IF matchesAny(t, laneKeywordsB) THEN <<"B">>
    ELSE IF matchesAny(t, laneKeywordsC) THEN <<"C">>
    ELSE IF matchesAny(t, laneKeywordsD) THEN <<"D">>
    ELSE IF matchesAny(t, laneKeywordsE) THEN <<"E">>
    ELSE <<"A">>

\* the tags array heuristicNormalize builds with forEach / push
RECURSIVE heuristicTags(_, _)
heuristicTags(t, words) ==
    IF words = <<>> THEN <<>>
    ELSE (IF includes(t, words[1]) THEN <<Str(replaceWsRuns(words[1], <<"-">>))>>
          ELSE <<>>)
         \o heuristicTags(t, Tail(words))

heuristicNormalize(text) ==
    LET firstLine == trim(splitLines(text)[1])
        title == join(sliceTo(splitChar(IF firstLine # <<>> THEN firstLine ELSE text, " "),
                              HeuristicTitleWords), <<" ">>)
        t == toLowerCase(text)
        summary == trim(replaceWsRuns(sliceTo(text, SummaryChars), <<" ">>))
    IN  [defaultFrontmatter EXCEPT
            !.title = Str(title),
            !.lane = Str(heuristicLane(t)),
            !.tags = Arr(uniq(heuristicTags(t, heuristicTagWords))),
            !.summary = Str(summary)]

\* length of the run of non-whitespace starting at position i (1-based)
RECURSIVE wordRun(_, _)
wordRun(s, i) ==
    IF i > Len(s) \/ IsSpace(s[i]) THEN 0 ELSE 1 + wordRun(s, i + 1)

\* str.replace(/\w\S*/g, w => w.charAt(0).toUpperCase() + w.slice(1))
RECURSIVE titleCase(_)
titleCase(s) ==
    IF s = <<>> THEN <<>>
    ELSE IF IsWordChar(s[1])
         THEN LET n == wordRun(s, 1)
              IN  <<ToUpperChar(s[1])>> \o SubSeq(s, 2, n)
                  \o titleCase(SubSeq(s, n + 1, Len(s)))
         ELSE <<s[1]>> \o titleCase(Tail(s))

\* .slice(0, 7) in enrichTags
MaxEnrichedTags == 7

\* while (arr.length < 3) in enrichTags
MinEnrichedTags == 3

\* the vocabulary terms enrichTags finds in the text, in vocabulary order
RECURSIVE vocabHits(_, _)
vocabHits(textLower, vocab) ==
    IF vocab = <<>> THEN <<>>
    ELSE (IF includes(textLower, [i \in 1..Len(vocab[1]) |->
                                    IF vocab[1][i] = "-" THEN " " ELSE vocab[1][i]])
          THEN <<Str(vocab[1])>> ELSE <<>>)
         \o vocabHits(textLower, Tail(vocab))

RECURSIVE padTags(_)
padTags(arr) ==
    IF Len(arr) < MinEnrichedTags THEN padTags(Append(arr, Str(S_artifact))) ELSE arr

\* enrichTags(tags, textLower) for an array tags: the array it returns
enrichTags(tags, textLower) ==
    LET given == [i \in 1..Len(tags.a) |->
                    Str(replaceWsRuns(trim(toLowerCase(String(tags.a[i]))), <<"-">>))]
        set == uniq(given \o vocabHits(textLower, tagVocab))
    IN  Arr(padTags(sliceTo(set, MaxEnrichedTags)))

\* (tags || []).map is not a function: tags is truthy and no array
enrichTagsThrows(tags) == tags.t # "arr"

-----------------------------------------------------------------------------
(* normalize-drafts.mjs: guard values, sanitize, dedup hash, serialize *)

\* U+0060, which a TLA+ string cannot hold
Backtick == "<U+0060>"

\* the class [`*_\[\]<>] of markdown markers
MdChars == {Backtick, "*", "_", "[", "]", "<", ">"}

\* .slice(0, 12) of the title's words
MaxTitleWords == 12

\* .slice(0, 80) of the title
MaxTitleChars == 80

\* words.length > 220
MaxContentWords == 220

\* lines 199-200 without line 200
guardLaneForceOnly(lane, forceLane) ==
    IF truthy(forceLane) /\ arrIncludes(allowedLanes, forceLane) THEN forceLane ELSE lane

\* lines 199-200: the override lane, then the allowed-lanes guard
guardLane(lane, forceLane) ==
    LET forced == IF truthy(forceLane) /\ arrIncludes(allowedLanes, forceLane)
                  THEN forceLane ELSE lane
    IN  IF ~arrIncludes(allowedLanes, forced) THEN Str(S_A) ELSE forced

\* lines 202-204
guardTargets(pt) ==
    IF pt.t # "arr" \/ Len(pt.a) = 0 THEN Arr(<<Str(S_github)>>) ELSE pt

\* lines 206-215
sanitizeTitle(title) ==
    IF truthy(title)
    THEN LET t1 == trim(String(title))
             t2 == stripChars(t1, MdChars)
             t3 == collapseWs2(t2)
             words == sliceTo(splitWs(t3), MaxTitleWords)
             t4 == join(words, <<" ">>)
         IN  Str(sliceTo(titleCase(t4), MaxTitleChars))
    ELSE title

\* lines 219-222
limitContent(content) ==
    IF truthy(content)
    THEN LET words == splitWs(String(content))
         IN  IF Len(words) > MaxContentWords
             THEN Str(join(sliceTo(words, MaxContentWords), <<" ">>) \o <<Ellipsis>>)
             ELSE content
    ELSE content

\* lines 198-222 raise a TypeError: a property is assigned on a primitive
\* (the script is a module, so strict), or tags is truthy and has no map
sanitizeThrows(n) ==
    \/ n.t # "obj"
    \/ enrichTagsThrows(orElse(n.tags, Arr(<<>>)))

\* lines 198-222 on an object n, for the document body and the --lane flag
sanitize(n, body, forceLane) ==
    [n EXCEPT
        !.lane = guardLane(n.lane, forceLane),
        !.status = Str(S_draft),
        !.publish_targets = guardTargets(n.publish_targets),
        !.title = sanitizeTitle(n.title),
        !.tags = enrichTags(orElse(n.tags, Arr(<<>>)), toLowerCase(body)),
        !.content = limitContent(n.content)]

\* (normalized.content || body)
contentOrBody(n, body) == orElse(n.content, Str(body))

\* the loop h = ((h << 5) + h) + s.charCodeAt(i), read back as (h >>> 0):
\* h * 33 + code modulo 2^32.  h is held as its two 16-bit halves <<hi, lo>>,
\* which keeps every intermediate value within 32 bits.  st holds the loop's
\* variables h and i (1-based here)
RECURSIVE hashLoop(_, _)
hashLoop(st, s) ==
    IF st.i > Len(s) THEN st.h
    ELSE LET lo == st.h[2] * 33 + charCode(s[st.i])
             hi == st.h[1] * 33 + (lo \div 65536)
         IN  hashLoop([h |-> <<hi % 65536, lo % 65536>>, i |-> st.i + 1], s)

\* the 4 hexadecimal digits of a 16-bit half
hex4(n) ==
    LET hex == DigitChars \o <<"a","b","c","d","e","f">>
    IN  <<hex[(n \div 4096) + 1], hex[((n \div 256) % 16) + 1],
          hex[((n \div 16) % 16) + 1], hex[(n % 16) + 1]>>

\* lines 225-228: the fingerprint of a string, (h >>> 0).toString(16) from
\* h = 5381
contentHash(s) ==
    LET h == hashLoop([h |-> <<0, 5381>>, i |-> 1], s)
    IN  IF h[1] = 0 THEN toString16(h[2]) ELSE toString16(h[1]) \o hex4(h[2])

\* JSON.stringify of a string
RECURSIVE jsonQuoteChars(_)
jsonQuoteChars(s) ==
    IF s = <<>> THEN <<>>
    ELSE (CASE s[1] = "\"" -> <<"\\", "\"">>
            [] s[1] = "\\" -> <<"\\", "\\">>
            [] s[1] = "\n" -> <<"\\", "n">>
            [] s[1] = "\r" -> <<"\\", "r">>
            [] s[1] = "\t" -> <<"\\", "t">>
            [] OTHER -> <<s[1]>>)
         \o jsonQuoteChars(Tail(s))

\* JSON.stringify(v) for strings, numbers, null and arrays of them
RECURSIVE jsonStringify(_)
jsonStringify(v) ==
    CASE v.t = "str" -> <<"\"">> \o jsonQuoteChars(v.s) \o <<"\"">>
      [] v.t \in {"num", "bool"} -> String(v)
      [] v.t = "arr" ->
            <<"[">> \o join([i \in 1..Len(v.a) |->
                              IF v.a[i].t = "undef" THEN <<"n","u","l","l">>
                              ELSE jsonStringify(v.a[i])], <<",">>) \o <<"]">>
      [] OTHER -> <<"n","u","l","l">>

K_title == <<"t","i","t","l","e">>

K_lane == <<"l","a","n","e">>

K_status == <<"s","t","a","t","u","s">>

K_tags == <<"t","a","g","s">>

K_source_refs == <<"s","o","u","r","c","e","_","r","e","f","s">>

K_summary == <<"s","u","m","m","a","r","y">>

K_publish_targets == <<"p","u","b","l","i","s","h","_","t","a","r","g","e","t","s">>

Fence == <<"-","-","-">>

\* toFrontmatter(obj): the metadata block, ending with a newline
toFrontmatter(obj) ==
    join(<< Fence,
            K_title \o <<":"," ">> \o jsonStringify(orElse(obj.title, Str(<<>>))),
            K_lane \o <<":"," ">> \o jsonStringify(orElse(obj.lane, Str(S_A))),
            K_status \o <<":"," ">> \o jsonStringify(orElse(obj.status, Str(S_draft))),
            K_tags \o <<":"," ">> \o jsonStringify(orElse(obj.tags, Arr(<<>>))),
            K_source_refs \o <<":"," ","[","]">>,
            K_summary \o <<":"," ">> \o jsonStringify(orElse(obj.summary, Str(<<>>))),
            K_publish_targets \o <<":"," ">>
                \o jsonStringify(orElse(obj.publish_targets, Arr(<<Str(S_github)>>))),
            Fence,
            <<>> >>, <<"\n">>)

\* lines 237-239: the text written to the output file
recordText(n, body) == toFrontmatter(n) \o trim(contentOrBody(n, body).s) \o <<"\n">>

\* splitFrontmatter(md): [fmRaw, body]
splitFrontmatter(md) ==
    LET end == indexOf(md, <<"\n">> \o Fence, 3)
    IN  IF startsWith(md, Fence) /\ end # -1
        THEN [fmRaw |-> trim(SubSeq(md, 4, end)), body |-> trim(sliceFrom(md, end + 4))]
        ELSE [fmRaw |-> <<>>, body |-> trim(md)]

-----------------------------------------------------------------------------
(* JSON.parse, for strings, integers, true, false, null and arrays of them *)

ParseFail == [ok |-> FALSE, v |-> Undef, next |-> 0]

ParseOk(v, next) == [ok |-> TRUE, v |-> v, next |-> next]

\* first position at or after i that holds no JSON whitespace
RECURSIVE skipWs(_, _)
skipWs(s, i) == IF i <= Len(s) /\ IsSpace(s[i]) THEN skipWs(s, i + 1) ELSE i

\* the characters of a string literal whose opening quote is before i
RECURSIVE parseStringBody(_, _, _)
parseStringBody(s, i, acc) ==
    IF i > Len(s) THEN ParseFail
    ELSE IF s[i] = "\"" THEN ParseOk(Str(acc), i + 1)
    ELSE IF s[i] \in {"\n", "\r", "\t"} THEN ParseFail
    ELSE IF s[i] = "\\"
         THEN IF i + 1 > Len(s) THEN ParseFail
              ELSE CASE s[i + 1] = "\"" -> parseStringBody(s, i + 2, Append(acc, "\""))
                     [] s[i + 1] = "\\" -> parseStringBody(s, i + 2, Append(acc, "\\"))
                     [] s[i + 1] = "/" -> parseStringBody(s, i + 2, Append(acc, "/"))
                     [] s[i + 1] = "n" -> parseStringBody(s, i + 2, Append(acc, "\n"))
                     [] s[i + 1] = "r" -> parseStringBody(s, i + 2, Append(acc, "\r"))
                     [] s[i + 1] = "t" -> parseStringBody(s, i + 2, Append(acc, "\t"))
                     [] OTHER -> ParseFail
    ELSE parseStringBody(s, i + 1, Append(acc, s[i]))

\* value of the digits s[i..j]
RECURSIVE digitsValue(_, _, _)
digitsValue(s, i, j) ==
    IF j < i THEN 0
    ELSE 10 * digitsValue(s, i, j - 1) + (Pos(s[j], DigitChars) - 1)

RECURSIVE digitRun(_, _)
digitRun(s, i) == IF i <= Len(s) /\ IsDigit(s[i]) THEN 1 + digitRun(s, i + 1) ELSE 0

\* an integer: -? (0 | [1-9][0-9]*)
parseNumber(s, i) ==
    LET neg == i <= Len(s) /\ s[i] = "-"
        d == IF neg THEN i + 1 ELSE i
        n == digitRun(s, d)
    IN  IF n = 0 \/ (n > 1 /\ s[d] = "0") THEN ParseFail
        ELSE ParseOk(Num((IF neg THEN -1 ELSE 1) * digitsValue(s, d, d + n - 1)), d + n)

matchAt(s, i, word) == SubSeq(s, i, Min(Len(s), i + Len(word) - 1)) = word

RECURSIVE parseValue(_, _)
RECURSIVE parseElements(_, _, _)
parseValue(s, i) ==
    IF i > Len(s) THEN ParseFail
    ELSE IF s[i] = "\"" THEN parseStringBody(s, i + 1, <<>>)
    ELSE IF s[i] = "["
         THEN LET j == skipWs(s, i + 1)
              IN  IF j <= Len(s) /\ s[j] = "]" THEN ParseOk(Arr(<<>>), j + 1)
                  ELSE parseElements(s, j, <<>>)
    ELSE IF matchAt(s, i, <<"n","u","l","l">>) THEN ParseOk(Null, i + 4)
    ELSE IF matchAt(s, i, <<"t","r","u","e">>) THEN ParseOk(Bool(TRUE), i + 4)
    ELSE IF matchAt(s, i, <<"f","a","l","s","e">>) THEN ParseOk(Bool(FALSE), i + 5)
    ELSE parseNumber(s, i)

\* the elements of an array from position i, acc holding those before
parseElements(s, i, acc) ==
    LET e == parseValue(s, i)
        j == skipWs(s, e.next)
    IN  IF ~e.ok \/ j > Len(s) THEN ParseFail
        ELSE IF s[j] = "]" THEN ParseOk(Arr(Append(acc, e.v)), j + 1)
        ELSE IF s[j] = "," THEN parseElements(s, skipWs(s, j + 1), Append(acc, e.v))
        ELSE ParseFail

\* JSON.parse(s): ok is FALSE where it throws
jsonParse(s) ==
    LET r == parseValue(s, skipWs(s, 1))
    IN  IF r.ok /\ skipWs(s, r.next) = Len(s) + 1 THEN r ELSE ParseFail

-----------------------------------------------------------------------------
(* validate-artifacts.mjs *)

IsKeyChar(c) == IsLower(c) \/ IsUpper(c) \/ c = "_"

RECURSIVE keyRun(_, _)
keyRun(s, i) == IF i <= Len(s) /\ IsKeyChar(s[i]) THEN 1 + keyRun(s, i + 1) ELSE 0

\* line.match(/^([a-zA-Z_]+):\s*(.*)$/): [ok, key, val]
matchLine(line) ==
    LET k == keyRun(line, 1)
        v == SubSeq(line, skipWs(line, k + 2), Len(line))
    IN  IF k >= 1 /\ k + 1 <= Len(line) /\ line[k + 1] = ":"
           /\ \A i \in 1..Len(v) : v[i] \notin {"\n", "\r"}
        THEN [ok |-> TRUE, key |-> SubSeq(line, 1, k), val |-> v]
        ELSE [ok |-> FALSE, key |-> <<>>, val |-> <<>>]

\* val.replace(/^\"|\"$/g, '')
stripQuotes(val) ==
    LET a == IF val # <<>> /\ val[1] = "\"" THEN Tail(val) ELSE val
    IN  IF a # <<>> /\ a[Len(a)] = "\"" THEN SubSeq(a, 1, Len(a) - 1) ELSE a

\* the value parseFrontmatter stores for a line's value text
lineValue(val) ==
    IF jsonParse(val).ok THEN jsonParse(val).v ELSE Str(stripQuotes(val))

\* the for-loop of parseFrontmatter: fm as a sequence of [key, val], a later
\* entry for a key replacing an earlier one
RECURSIVE fmEntries(_)
fmEntries(lines) ==
    IF lines = <<>> THEN <<>>
    ELSE LET m == matchLine(lines[1])
         IN  (IF m.ok THEN <<[key |-> m.key, val |-> lineValue(m.val)]>> ELSE <<>>)
             \o fmEntries(Tail(lines))

\* parseFrontmatter(md): [fm, body]
parseFrontmatter(md) ==
    LET end == indexOf(md, <<"\n">> \o Fence, 3)
    IN  IF ~startsWith(md, Fence) \/ end = -1
        THEN [fm |-> <<>>, body |-> trim(md)]
        ELSE [fm |-> fmEntries(splitLines(trim(SubSeq(md, 4, end)))),
              body |-> trim(sliceFrom(md, end + 4))]

\* k in fm
fmHas(fm, k) == \E i \in 1..Len(fm) : fm[i].key = k

\* fm[k]
fmGet(fm, k) ==
    IF fmHas(fm, k)
    THEN fm[CHOOSE i \in 1..Len(fm) :
                fm[i].key = k /\ \A j \in 1..Len(fm) : fm[j].key = k => j <= i].val
    ELSE Undef

\* an error descriptor: the message's fixed part and its interpolated part
Err(kind, detail) == [kind |-> kind, detail |-> detail]

\* /^[a-z0-9-]{1,30}$/
MaxSlugChars == 30

\* the character class of the slug pattern without its length bounds
isTagSlugAnyLength(s) ==
    \A i \in 1..Len(s) : IsLower(s[i]) \/ IsDigit(s[i]) \/ s[i] = "-"

\* /^[a-z0-9-]{1,30}$/.test(s)
isTagSlug(s) ==
    /\ Len(s) >= 1
    /\ Len(s) <= MaxSlugChars
    /\ \A i \in 1..Len(s) : IsLower(s[i]) \/ IsDigit(s[i]) \/ s[i] = "-"

\* tags.length > 10
MaxTags == 10

\* summary.length > 240
MaxSummaryChars == 240

\* bodyLen < 20
MinBodyChars == 20

\* strictMode && bodyLen > 6000
MaxStrictBodyChars == 6000

allowedStatus == {<<"d","r","a","f","t">>, <<"p","u","b","l","i","s","h">>}

allowedTargets == {<<"t","w","i","t","t","e","r">>, <<"g","i","t","h","u","b">>,
                   <<"i","m","a","g","e">>, <<"g","i","s","t">>}

reqKeys == <<K_title, K_lane, K_status, K_tags, K_summary, K_publish_targets>>

\* arr.filter(x => x.t = "str" /\ ...) helpers: the elements failing a test
RECURSIVE badTagsOf(_)
badTagsOf(tags) ==
    IF tags = <<>> THEN <<>>
    ELSE (IF isTagSlug(String(tags[1])) THEN <<>> ELSE <<tags[1]>>) \o badTagsOf(Tail(tags))

RECURSIVE badTargetsOf(_)
badTargetsOf(pub) ==
    IF pub = <<>> THEN <<>>
    ELSE (IF String(pub[1]) \in allowedTargets THEN <<>> ELSE <<pub[1]>>)
         \o badTargetsOf(Tail(pub))

RECURSIVE missingKeys(_, _)
missingKeys(fm, keys) ==
    IF keys = <<>> THEN <<>>
    ELSE (IF fmHas(fm, keys[1]) THEN <<>>
          ELSE <<Err("missing frontmatter key", keys[1])>>)
         \o missingKeys(fm, Tail(keys))

errIf(cond, kind, detail) == IF cond THEN <<Err(kind, detail)>> ELSE <<>>

\* validateFile(p, text, strictMode).errors
validateFile(text, strictMode) ==
    LET parsed == parseFrontmatter(text)
        fm == parsed.fm
        title == trim(String(orElse(fmGet(fm, K_title), Str(<<>>))))
        wordCount == Len(SelectSeq(splitWs(title), LAMBDA w : w # <<>>))
        lane == stripChars(String(orElse(fmGet(fm, K_lane), Str(<<>>))), {"\""})
        status == stripChars(String(orElse(fmGet(fm, K_status), Str(<<>>))), {"\""})
        tags == IF fmGet(fm, K_tags).t = "arr" THEN fmGet(fm, K_tags).a ELSE <<>>
        badTags == badTagsOf(tags)
        pub == IF fmGet(fm, K_publish_targets).t = "arr"
               THEN fmGet(fm, K_publish_targets).a ELSE <<>>
        badTargets == badTargetsOf(pub)
        summary == trim(String(orElse(fmGet(fm, K_summary), Str(<<>>))))
        bodyLen == Len(trim(parsed.body))
    IN  missingKeys(fm, reqKeys)
        \o errIf(title = <<>>, "title is empty", <<>>)
        \o errIf(Len(title) > MaxTitleChars, "title exceeds 80 chars", <<>>)
        \o errIf(wordCount > MaxTitleWords, "title exceeds 12 words", <<>>)
        \o errIf(\E i \in 1..Len(title) : title[i] \in MdChars,
                 "title contains markdown characters", <<>>)
        \o errIf(~arrIncludes(allowedLanes, Str(lane)), "invalid lane", lane)
        \o errIf(status \notin allowedStatus, "invalid status", status)
        \o errIf(Len(tags) = 0, "tags empty", <<>>)
        \o errIf(Len(tags) > MaxTags, "too many tags (>10)", <<>>)
        \o errIf(Len(badTags) > 0, "bad tag slugs", String(Arr(badTags)))
        \o errIf(Len(pub) = 0, "publish_targets empty", <<>>)
        \o errIf(Len(badTargets) > 0, "invalid publish_targets", String(Arr(badTargets)))
        \o errIf(summary = <<>>, "summary empty", <<>>)
        \o errIf(Len(summary) > MaxSummaryChars, "summary exceeds 240 chars", <<>>)
        \o errIf(bodyLen < MinBodyChars, "content body too short", <<>>)
        \o errIf(strictMode /\ bodyLen > MaxStrictBodyChars,
                 "content body too long (>6000 chars)", <<>>)

-----------------------------------------------------------------------------
(* normalize-drafts.mjs main(): the run as a state machine *)

\* number of drafts in the input directory, at most
MaxDocs == 3

\* the granularity of time: one Tick lets this many ms pass
TickMs == 500

\* while (attempt < 3)
MaxAttempts == 3

\* const delay = 500 * Math.pow(2, attempt)
BaseDelayMs == 500

RECURSIVE pow2(_)
pow2(n) == IF n = 0 THEN 1 ELSE 2 * pow2(n - 1)

\* the drafts a run may find: two short ones whose fingerprints collide
\* ("ab" and "bA"), and one with a frontmatter block and lane keywords
D_ab == <<"a","b">>

D_bA == <<"b","A">>

D_fm ==
    <<"-","-","-","\n","s","t","a","t","u","s",":"," ","\"","d","r","a","f","t","\"","\n",
      "-","-","-","\n","\n","D","i","a","g","r","a","m"," ","p","r","o","m","p","t"," ",
      "n","o","t","e",":"," ","k","e","e","p"," ","i","t"," ","a","t","o","m","i","c","\n">>

Drafts == {D_ab, D_bA, D_fm}

FileLists == UNION {[1..n -> Drafts] : n \in 0..MaxDocs}

\* --lane absent, valid, invalid
ForceLanes == {Str(<<>>), Str(<<"B">>), Str(<<"z">>)}

Configs == [dryRun : BOOLEAN, apiKey : BOOLEAN, forceLane : ForceLanes]

\* what the remote call may return: a well-formed object, an object with an
\* out-of-set lane and markdown in its title, the JSON value null, a number
V_full ==
    Obj(Str(<<"A","b"," ","c","d">>), Str(<<"C">>), Str(<<"p","u","b","l","i","s","h">>),
        Arr(<<Str(<<"X"," ","y">>)>>), Undef, Str(<<"o","k">>),
        Arr(<<Str(<<"g","i","s","t">>)>>), Str(<<"b","A">>))

V_odd ==
    Obj(Str(<<"*"," ","a">>), Str(<<"z">>), Undef, Undef, Undef, Undef, Undef, Undef)

RemoteValues == {V_full, V_odd, Null, Num(5)}

Fail == [ok |-> FALSE, v |-> Undef]

Ok(v) == [ok |-> TRUE, v |-> v]

NotWritten == [rec |-> Undef, text |-> <<>>]

NoTimer == [delay |-> 0, elapsed |-> 0]

\* the body of draft i, as main() gets it from splitFrontmatter
Body(i) == splitFrontmatter(files[i]).body

\* the test of line 175 without its dryRun half
useRemoteIgnoringDryRun == cfg.apiKey

\* if (!dryRun && apiKey)
useRemote == ~cfg.dryRun /\ cfg.apiKey

InitPipeline ==
    /\ cfg \in Configs
    /\ files \in FileLists
    /\ idx = 1
    /\ pc = "start"
    /\ attempt = 0
    /\ normalized = Undef
    /\ handed = Undef
    /\ seenHashes = {}
    /\ written = [i \in 1..Len(files) |-> NotWritten]
    /\ skipped = {}
    /\ contents = [i \in 1..Len(files) |-> <<>>]
    /\ calls = <<>>
    /\ delays = <<>>
    /\ timer = NoTimer
    /\ inflight = 0

HarnessOff == hIn = <<>> /\ hOut = <<>> /\ hPc = "off"

\* no exit status yet
NoExit == -1

ValidatorOff ==
    /\ vArgs = [dirExists |-> FALSE, strict |-> FALSE]
    /\ vFiles = <<>>
    /\ vIdx = 1
    /\ results = <<>>
    /\ slugSeen = <<>>
    /\ vPc = "off"
    /\ exitCode = NoExit

ExtractOff ==
    /\ xCfg = [dryRun |-> TRUE, apiKey |-> FALSE]
    /\ xFiles = <<>>
    /\ xIdx = 1
    /\ xPc = "off"
    /\ xI = 0
    /\ features = Undef
    /\ xCalls = <<>>
    /\ xDelays = <<>>
    /\ xTimer = NoTimer
    /\ xInflight = 0
    /\ xWritten = <<>>

OthersOff == run = 1 /\ ValidatorOff /\ ExtractOff

Init == InitPipeline /\ HarnessOff /\ OthersOff

\* lines 161-168
Start ==
    /\ pc = "start"
    /\ pc' = IF Len(files) = 0 THEN "done" ELSE "read"
    /\ UNCHANGED <<cfg, files, idx, attempt, normalized, handed, seenHashes, written,
                   skipped, contents, calls, delays, timer, inflight>>
    /\ UNCHANGED hVars
    /\ UNCHANGED otherVars

\* lines 170-178 and 194-196: the loop body up to the choice of strategy
ReadFile ==
    /\ pc = "read"
    /\ attempt' = 0
    /\ calls' = <<>>
    /\ delays' = <<>>
    /\ timer' = NoTimer
    /\ IF useRemote
       THEN /\ normalized' = Undef
            /\ handed' = Undef
            /\ pc' = "call"
       ELSE /\ normalized' = heuristicNormalize(Body(idx))
            /\ handed' = normalized'
            /\ pc' = "sanitize"
    /\ UNCHANGED <<cfg, files, idx, seenHashes, written, skipped, contents, inflight>>
    /\ UNCHANGED hVars
    /\ UNCHANGED otherVars

\* line 181: the request is sent
StartCall ==
    /\ pc = "call"
    /\ inflight' = inflight + 1
    /\ pc' = "await"
    /\ UNCHANGED <<cfg, files, idx, attempt, normalized, handed, seenHashes, written,
                   skipped, contents, calls, delays, timer>>
    /\ UNCHANGED hVars
    /\ UNCHANGED otherVars

\* the linear schedule of extract-features.mjs, 500 * (i + 1)
backoffDelayLinear(n) == BaseDelayMs * (n + 1)

\* the delay computed at line 185
backoffDelay(n) == BaseDelayMs * pow2(n)

\* lines 183-186: the call throws; the delay is computed and the timer set
CallFail ==
    /\ pc = "await"
    /\ inflight' = inflight - 1
    /\ calls' = Append(calls, Fail)
    /\ delays' = Append(delays, backoffDelay(attempt))
    /\ timer' = [delay |-> backoffDelay(attempt), elapsed |-> 0]
    /\ pc' = "sleep"
    /\ UNCHANGED <<cfg, files, idx, attempt, normalized, handed, seenHashes, written,
                   skipped, contents>>
    /\ UNCHANGED hVars
    /\ UNCHANGED otherVars

\* lines 181-182: the call returns a value; break
CallOk ==
    /\ pc = "await"
    /\ \E v \in RemoteValues :
          /\ normalized' = v
          /\ calls' = Append(calls, Ok(v))
    /\ inflight' = inflight - 1
    /\ pc' = "afterLoop"
    /\ UNCHANGED <<cfg, files, idx, attempt, handed, seenHashes, written, skipped,
                   contents, delays, timer>>
    /\ UNCHANGED hVars
    /\ UNCHANGED otherVars

\* time passes while main() is suspended in the await of line 186
Tick ==
    /\ pc = "sleep"
    /\ timer.elapsed < timer.delay
    /\ timer' = [timer EXCEPT !.elapsed = @ + TickMs]
    /\ UNCHANGED <<cfg, files, idx, pc, attempt, normalized, handed, seenHashes,
                   written, skipped, contents, calls, delays, inflight>>
    /\ UNCHANGED hVars
    /\ UNCHANGED otherVars

\* setTimeout(r, delay) calls r once the delay has passed
timerDue(t) == t.elapsed >= t.delay

\* lines 186-189: the timer fires, attempt++, the loop condition is tested
Wake ==
    /\ pc = "sleep"
    /\ timerDue(timer)
    /\ attempt' = attempt + 1
    /\ pc' = IF attempt + 1 < MaxAttempts THEN "call" ELSE "afterLoop"
    /\ UNCHANGED <<cfg, files, idx, normalized, handed, seenHashes, written, skipped,
                   contents, calls, delays, timer, inflight>>
    /\ UNCHANGED hVars
    /\ UNCHANGED otherVars

\* lines 190-193 without the call of heuristicNormalize: the defaults are used
afterRetriesDefault(n, body) == IF ~truthy(n) THEN defaultFrontmatter ELSE n

\* the value of normalized after lines 190-193
afterRetries(n, body) == IF ~truthy(n) THEN heuristicNormalize(body) ELSE n

\* lines 190-193
AfterLoop ==
    /\ pc = "afterLoop"
    /\ normalized' = afterRetries(normalized, Body(idx))
    /\ handed' = normalized'
    /\ pc' = "sanitize"
    /\ UNCHANGED <<cfg, files, idx, attempt, seenHashes, written, skipped, contents, calls,
                   delays, timer, inflight>>
    /\ UNCHANGED hVars
    /\ UNCHANGED otherVars

\* lines 198-222; a TypeError there is not caught and ends the run (line 246)
Sanitize ==
    /\ pc = "sanitize"
    /\ IF sanitizeThrows(normalized)
       THEN /\ pc' = "crashed"
            /\ UNCHANGED normalized
       ELSE /\ normalized' = sanitize(normalized, Body(idx), cfg.forceLane)
            /\ pc' = "dedup"
    /\ UNCHANGED <<cfg, files, idx, attempt, handed, seenHashes, written, skipped,
                   contents, calls, delays, timer, inflight>>
    /\ UNCHANGED hVars
    /\ UNCHANGED otherVars

\* s.charCodeAt is not a function (line 227), or (...).trim is not (line 238)
writeThrows(s) == s.t # "str"

\* lines 224-241: the dedup gate, then the write
DedupWrite ==
    /\ pc = "dedup"
    /\ LET s == contentOrBody(normalized, Body(idx))
           hash == contentHash(s.s)
       IN  IF writeThrows(s)
           THEN /\ pc' = "crashed"
                /\ UNCHANGED <<idx, seenHashes, written, skipped, contents>>
           ELSE /\ contents' = [contents EXCEPT ![idx] = <<s.s>>]
                /\ IF hash \in seenHashes
                   THEN /\ skipped' = skipped \cup {idx}
                        /\ UNCHANGED <<seenHashes, written>>
                   ELSE /\ seenHashes' = seenHashes \cup {hash}
                        /\ written' = [written EXCEPT ![idx] =
                              [rec |-> normalized,
                               text |-> recordText(normalized, Body(idx))]]
                        /\ UNCHANGED skipped
                /\ idx' = idx + 1
                /\ pc' = IF idx = Len(files) THEN "done" ELSE "read"
    /\ UNCHANGED <<cfg, files, attempt, normalized, handed, calls, delays,
                   timer, inflight>>
    /\ UNCHANGED hVars
    /\ UNCHANGED otherVars

Next ==
    \/ Start
    \/ ReadFile
    \/ StartCall
    \/ CallFail
    \/ CallOk
    \/ Tick
    \/ Wake
    \/ AfterLoop
    \/ Sanitize
    \/ DedupWrite

Spec == Init /\ [][Next]_vars

-----------------------------------------------------------------------------
(* Properties of the run *)

\* the documents the loop has finished with
processed == {i \in 1..Len(files) : contents[i] # <<>>}

\* the remote call was made three times for the current document and threw
\* each time
allFailed(c) == Len(c) = 3 /\ \A k \in 1..3 : ~c[k].ok

\* the loop has just finished with document idx - 1, whose calls, delays and
\* handed value are still in the variables
justFinished == pc \in {"read", "done"} /\ idx > 1

\* C1: every record file the run has written passes validateFile in
\* non-strict mode with zero error descriptors
C1_ValidatorSound ==
    \A i \in 1..Len(files) :
        written[i] # NotWritten => validateFile(written[i].text, FALSE) = <<>>

\* C2: the remote call is made until its first success or until 3 calls have
\* failed and never after a success; when it fails twice and then succeeds,
\* the value of the third call is what is handed to the guard steps
C2_RetryCount ==
    /\ Len(calls) <= 3
    /\ \A k \in 1..(Len(calls) - 1) : ~calls[k].ok
    /\ (useRemote /\ pc \in {"afterLoop", "sanitize", "dedup"}) =>
          (calls # <<>> /\ (calls[Len(calls)].ok \/ Len(calls) = 3))
    /\ (pc \in {"sanitize", "dedup"} /\ Len(calls) = 3 /\ calls[3].ok) =>
          handed = calls[3].v

\* C3: the delay slept after the k-th failed attempt is 500 * 2^(k-1) ms, one
\* delay per failure, and a call that follows a failure is issued only when
\* the timer set for that delay has run its full time
C3_BackoffSchedule ==
    /\ \A k \in 1..Len(delays) : delays[k] = 500 * 2^(k - 1)
    /\ Len(delays) = Cardinality({k \in 1..Len(calls) : ~calls[k].ok})
    /\ (pc \in {"call", "await"} /\ delays # <<>>) =>
          /\ timer.delay = delays[Len(delays)]
          /\ timer.elapsed >= delays[Len(delays)]

\* C3 witness: the third call is in flight after delays of 500 and 1000 ms
C3_Witness ==
    /\ pc = "await"
    /\ delays = <<500, 1000>>
    /\ timer.elapsed >= 1000

\* C4 as stated: when all 3 remote attempts fail for a document, the value
\* handed to the guard steps is heuristicNormalize(body), the record is
\* written, and no exception ends the run
C4_FallbackWritten ==
    allFailed(calls) =>
        /\ pc # "crashed"
        /\ pc \in {"sanitize", "dedup"} => handed = heuristicNormalize(Body(idx))
        /\ justFinished =>
              /\ handed = heuristicNormalize(Body(idx - 1))
              /\ written[idx - 1] # NotWritten

\* C4 amended: when all 3 remote attempts fail for a document, the value
\* handed to the guard steps is heuristicNormalize(body) and no exception ends
\* the run; the record written is the guarded heuristic result, and it is
\* written unless the document's fingerprint was already seen in this run, in
\* which case the document is skipped as a duplicate
C4_Fallback ==
    allFailed(calls) =>
        /\ pc # "crashed"
        /\ pc \in {"sanitize", "dedup"} => handed = heuristicNormalize(Body(idx))
        /\ justFinished =>
              /\ handed = heuristicNormalize(Body(idx - 1))
              /\ IF \E j \in 1..(idx - 2) :
                       /\ written[j] # NotWritten
                       /\ contentHash(contents[j][1]) = contentHash(contents[idx - 1][1])
                 THEN written[idx - 1] = NotWritten /\ (idx - 1) \in skipped
                 ELSE /\ written[idx - 1] # NotWritten
                      /\ written[idx - 1].rec =
                            sanitize(handed, Body(idx - 1), cfg.forceLane)

\* C4 witness: a second document whose three calls all failed has been written
\* from the heuristic result
C4_Witness ==
    /\ justFinished
    /\ idx = 3
    /\ allFailed(calls)
    /\ written[2] # NotWritten
    /\ written[2].rec.title = sanitizeTitle(heuristicNormalize(Body(2)).title)

\* C5: documents processed in one run with identical sanitized content get
\* exactly one record: the first of them in listing order is written, every
\* later one is skipped, and no error is raised
C5_Dedup ==
    \A j \in processed :
        LET same == {i \in processed : contents[i] = contents[j]}
            first == CHOOSE i \in same : \A k \in same : i <= k
        IN  Cardinality(same) >= 2 =>
               /\ written[first] # NotWritten
               /\ \A i \in same \ {first} : written[i] = NotWritten /\ i \in skipped

\* C8: after the guard steps the lane is one of A..E; a valid --lane wins
\* whatever the oracle returned; otherwise the oracle's lane is kept when it is
\* one of A..E and replaced by A when it is not
C8_LaneGuard ==
    LET lanes == {Str(<<"A">>), Str(<<"B">>), Str(<<"C">>), Str(<<"D">>), Str(<<"E">>)}
    IN  /\ pc = "dedup" =>
              /\ normalized.lane \in lanes
              /\ cfg.forceLane \in lanes => normalized.lane = cfg.forceLane
              /\ (cfg.forceLane \notin lanes /\ handed.lane \in lanes) =>
                    normalized.lane = handed.lane
              /\ (cfg.forceLane \notin lanes /\ handed.lane \notin lanes) =>
                    normalized.lane = Str(<<"A">>)
        /\ \A i \in 1..Len(files) :
              written[i] # NotWritten => written[i].rec.lane \in lanes

\* C8 witnesses: an override B replaces the oracle's C; an invalid override z
\* is ignored and the oracle's out-of-set lane z becomes A
C8_Witness ==
    /\ pc = "dedup"
    /\ cfg.forceLane = Str(<<"z">>)
    /\ handed.lane = Str(<<"z">>)
    /\ normalized.lane = Str(<<"A">>)

-----------------------------------------------------------------------------
(* The pure functions, each applied to inputs drawn from a bounded set while
   the pipeline stays idle *)

PipelineOff ==
    /\ cfg = [dryRun |-> TRUE, apiKey |-> FALSE, forceLane |-> Str(<<>>)]
    /\ files = <<>>
    /\ idx = 1
    /\ pc = "off"
    /\ attempt = 0
    /\ normalized = Undef
    /\ handed = Undef
    /\ seenHashes = {}
    /\ written = <<>>
    /\ skipped = {}
    /\ contents = <<>>
    /\ calls = <<>>
    /\ delays = <<>>
    /\ timer = NoTimer
    /\ inflight = 0

\* ---- heuristicNormalize

\* number of words in a text given to heuristicNormalize, at most
MaxWords == 3

\* words of the texts: one keyword of each lane (in mixed case), a D keyword
\* that contains a B keyword, and a word that is no keyword
WordPool ==
    { <<"D","i","a","g","r","a","m">>, <<"p","r","o","m","p","t">>,
      <<"J","S","O","N">>, <<"n","o","t","e">>,
      <<"t","a","s","k"," ","g","r","a","p","h">>, <<"x","y","z">> }

HeuristicTexts ==
    {join(ws, <<" ">>) : ws \in UNION {[1..n -> WordPool] : n \in 0..MaxWords}}

InitHeuristic ==
    /\ PipelineOff
    /\ OthersOff
    /\ hIn \in HeuristicTexts
    /\ hOut = <<>>
    /\ hPc = "in"

\* normalized = heuristicNormalize(body)
CallHeuristicNormalize ==
    /\ hPc = "in"
    /\ hOut' = heuristicNormalize(hIn)
    /\ hPc' = "out"
    /\ UNCHANGED hIn
    /\ UNCHANGED pipeVars
    /\ UNCHANGED otherVars

NextHeuristic == CallHeuristicNormalize

SpecHeuristic == InitHeuristic /\ [][NextHeuristic]_vars

\* some word of the keyword set occurs in the lowercased text
hasKeyword(text, words) ==
    \E i \in 1..Len(words) : includes(toLowerCase(text), words[i])

\* C9: heuristicNormalize returns the lane of the first keyword set, in the
\* order B, C, D, E, that has a match in the lowercased text, and A when none
\* has; a text containing "diagram" gets B, a text matching only C and E
\* keywords gets C
C9_LanePriority ==
    hPc = "out" =>
        LET b == hasKeyword(hIn, laneKeywordsB)
            c == hasKeyword(hIn, laneKeywordsC)
            d == hasKeyword(hIn, laneKeywordsD)
            e == hasKeyword(hIn, laneKeywordsE)
        IN  /\ hOut.lane = Str(IF b THEN <<"B">>
                               ELSE IF c THEN <<"C">>
                               ELSE IF d THEN <<"D">>
                               ELSE IF e THEN <<"E">>
                               ELSE <<"A">>)
            /\ includes(toLowerCase(hIn), <<"d","i","a","g","r","a","m">>) =>
                  hOut.lane = Str(<<"B">>)
            /\ (c /\ e /\ ~b /\ ~d) => hOut.lane = Str(<<"C">>)

\* C9 witness: a text with an E, a C and then a B keyword was classified B
C9_Witness ==
    /\ hPc = "out"
    /\ hIn = <<"n","o","t","e"," ","p","r","o","m","p","t"," ","D","i","a","g","r","a","m">>
    /\ hOut.lane = Str(<<"B">>)

\* ---- validateFile

\* a record text is built around a tag list: some tags of the pool, at most
\* this many
MaxPoolTags == 2

\* followed by copies of a well-formed tag, at most this many
MaxFillTags == 10

\* a slug, a tag with an upper-case letter, a slug of 30 characters and a tag
\* of 31
PoolTags ==
    { <<"a","-","1">>, <<"A","b">>, [i \in 1..30 |-> "a"], [i \in 1..31 |-> "a"] }

FillTag == <<"t">>

TagLists ==
    { pre \o [i \in 1..m |-> FillTag] :
        pre \in UNION {[1..k -> PoolTags] : k \in 0..MaxPoolTags},
        m \in 0..MaxFillTags }

\* the values of the tags key: arrays of strings, and a value that is no array
TagValues == {Arr([i \in 1..Len(l) |-> Str(l[i])]) : l \in TagLists} \cup {Str(<<"x">>)}

\* a record that passes validateFile, and a body of more than 20 characters
R_valid ==
    Obj(Str(<<"A","b"," ","c","d">>), Str(<<"C">>), Str(S_draft), Arr(<<Str(FillTag)>>),
        Arr(<<>>), Str(<<"o","k">>), Arr(<<Str(<<"g","i","s","t">>)>>), Undef)

B_valid ==
    <<"D","i","a","g","r","a","m"," ","p","r","o","m","p","t"," ",
      "n","o","t","e",":"," ","k","e","e","p"," ","i","t"," ","a","t","o","m","i","c">>

InitValidator ==
    /\ PipelineOff
    /\ OthersOff
    /\ \E tv \in TagValues, strict \in BOOLEAN :
          hIn = [tags |-> tv,
                 text |-> recordText([R_valid EXCEPT !.tags = tv], B_valid),
                 strict |-> strict]
    /\ hOut = <<>>
    /\ hPc = "in"

\* validate-artifacts main(): validateFile(p, text, strict).errors
CallValidateFile ==
    /\ hPc = "in"
    /\ hOut' = validateFile(hIn.text, hIn.strict)
    /\ hPc' = "out"
    /\ UNCHANGED hIn
    /\ UNCHANGED pipeVars
    /\ UNCHANGED otherVars

NextValidator == CallValidateFile

SpecValidator == InitValidator /\ [][NextValidator]_vars

\* the tag list of the record: the array of the tags key, empty when the value
\* is not an array
tagList(v) == IF v.t = "arr" THEN [i \in 1..Len(v.a) |-> v.a[i].s] ELSE <<>>

\* how many descriptors of a kind validateFile returned
errCount(errs, kind) == Cardinality({i \in 1..Len(errs) : errs[i].kind = kind})

\* C10: for a record with the tags key, validateFile emits 'tags empty' iff
\* the tag list is empty, 'too many tags' iff it has more than 10 entries, and
\* exactly one 'bad tag slugs' descriptor iff some tag is not [a-z0-9-]{1,30};
\* tags: [] gets 'tags empty' and no other descriptor about tags
C10_TagChecks ==
    hPc = "out" =>
        LET tags == tagList(hIn.tags)
            slug(s) == /\ Len(s) \in 1..30
                       /\ \A i \in 1..Len(s) : s[i] \in LowerSet \cup DigitSet \cup {"-"}
        IN  /\ errCount(hOut, "missing frontmatter key") = 0
            /\ errCount(hOut, "tags empty") = (IF tags = <<>> THEN 1 ELSE 0)
            /\ errCount(hOut, "too many tags (>10)") = (IF Len(tags) > 10 THEN 1 ELSE 0)
            /\ errCount(hOut, "bad tag slugs") =
                  (IF \E i \in 1..Len(tags) : ~slug(tags[i]) THEN 1 ELSE 0)
            /\ hIn.tags = Arr(<<>>) =>
                  {hOut[i].kind : i \in 1..Len(hOut)} = {"tags empty"}

\* C10 witness: a record with tags: [] got 'tags empty' as its only descriptor
C10_Witness ==
    /\ hPc = "out"
    /\ hIn.tags = Arr(<<>>)
    /\ hOut = <<Err("tags empty", <<>>)>>

\* ---- the guard steps (lines 198-222) applied twice

\* a content of more than 220 words: MaxContentWords + 1 one-letter words
LongContent == [i \in 1..(2 * MaxContentWords + 1) |-> IF i % 2 = 1 THEN "a" ELSE " "]

SanitizerTitles ==
    {Undef, Str(<<"A","b"," ","c","d">>), Str(<<"*"," ","a">>), Str(<<"a"," "," ","b","_","c">>)}

SanitizerContents == {Undef, Str(<<"b","A">>), Str(LongContent)}

\* classification results: any title, lane, tags, publish_targets and content
SanitizerInputs ==
    { Obj(title, lane, Undef, tags, Undef, Str(<<"o","k">>), pt, content) :
        title \in SanitizerTitles,
        lane \in {Str(<<"C">>), Str(<<"z">>)},
        tags \in {Undef, Arr(<<Str(<<"X"," ","y">>)>>)},
        pt \in {Undef, Arr(<<Str(<<"g","i","s","t">>)>>)},
        content \in SanitizerContents }

InitSanitizer ==
    /\ PipelineOff
    /\ OthersOff
    /\ hIn \in [n : SanitizerInputs, body : {D_ab, B_valid}, forceLane : ForceLanes]
    /\ hOut = <<>>
    /\ hPc = "in"

\* lines 198-222 on a classification result
ApplySanitizer ==
    /\ hPc = "in"
    /\ hOut' = <<sanitize(hIn.n, hIn.body, hIn.forceLane)>>
    /\ hPc' = "once"
    /\ UNCHANGED hIn
    /\ UNCHANGED pipeVars
    /\ UNCHANGED otherVars

\* lines 198-222 on their own output
ReapplySanitizer ==
    /\ hPc = "once"
    /\ hOut' = Append(hOut, sanitize(hOut[1], hIn.body, hIn.forceLane))
    /\ hPc' = "twice"
    /\ UNCHANGED hIn
    /\ UNCHANGED pipeVars
    /\ UNCHANGED otherVars

NextSanitizer ==
    \/ ApplySanitizer
    \/ ReapplySanitizer

SpecSanitizer == InitSanitizer /\ [][NextSanitizer]_vars

\* C6: applying the guard steps to their own output, with the same body and
\* lane override, gives a result equal in every field to the first output
C6_Idempotent == hPc = "twice" => hOut[2] = hOut[1]

\* ---- toFrontmatter, then splitFrontmatter and parseFrontmatter

\* schema-valid records: every field within the validator's limits, with and
\* without entries in source_refs
CodecRecords ==
    { Obj(title, lane, status, tags, refs, summary, pt, Undef) :
        title \in {Str(<<"A","b"," ","c","d">>), Str(<<"A"," ","\"","b","\"",":"," ","c">>)},
        lane \in {allowedLanes[i] : i \in 1..Len(allowedLanes)},
        status \in {Str(S_draft), Str(<<"p","u","b","l","i","s","h">>)},
        tags \in {Arr(<<Str(FillTag)>>),
                  Arr(<<Str(<<"a","-","1">>), Str(FillTag), Str(<<"x">>)>>)},
        refs \in {Arr(<<>>), Arr(<<Str(<<"c","h","a","t","-","1">>)>>)},
        summary \in {Str(<<"o","k">>)},
        pt \in {Arr(<<Str(S_github)>>),
                Arr(<<Str(<<"g","i","s","t">>), Str(<<"i","m","a","g","e">>)>>)} }

InitCodec ==
    /\ PipelineOff
    /\ OthersOff
    /\ hIn \in [r : CodecRecords, body : {B_valid}]
    /\ hOut = <<>>
    /\ hPc = "in"

\* lines 237-239: fm + bodyOut
Serialize ==
    /\ hPc = "in"
    /\ hOut' = <<recordText(hIn.r, hIn.body)>>
    /\ hPc' = "text"
    /\ UNCHANGED hIn
    /\ UNCHANGED pipeVars
    /\ UNCHANGED otherVars

\* the written text is split and its metadata block parsed
Reparse ==
    /\ hPc = "text"
    /\ hOut' = <<hOut[1], splitFrontmatter(hOut[1]), parseFrontmatter(hOut[1])>>
    /\ hPc' = "parsed"
    /\ UNCHANGED hIn
    /\ UNCHANGED pipeVars
    /\ UNCHANGED otherVars

NextCodec ==
    \/ Serialize
    \/ Reparse

SpecCodec == InitCodec /\ [][NextCodec]_vars

\* C7: a schema-valid record serialized with toFrontmatter plus body, split
\* and re-parsed, comes back equal in title, lane, status, tags, source_refs,
\* summary and publish_targets, with the same body
C7_RoundTrip ==
    hPc = "parsed" =>
        LET fm == hOut[3].fm
        IN  /\ fmGet(fm, K_title) = hIn.r.title
            /\ fmGet(fm, K_lane) = hIn.r.lane
            /\ fmGet(fm, K_status) = hIn.r.status
            /\ fmGet(fm, K_tags) = hIn.r.tags
            /\ fmGet(fm, K_source_refs) = hIn.r.source_refs
            /\ fmGet(fm, K_summary) = hIn.r.summary
            /\ fmGet(fm, K_publish_targets) = hIn.r.publish_targets
            /\ hOut[2].body = hIn.body
            /\ hOut[3].body = hIn.body

-----------------------------------------------------------------------------
(* validate-artifacts.mjs main(): one run of the validator over a directory *)

\* files in the target directory, at most
MaxValFiles == 3

\* toSlug(str, max = 60)
SlugMax == 60

\* the characters /[^a-z0-9\s-]/g leaves in place
SlugKeep == LowerSet \cup DigitSet \cup {" ", "\n", "\r", "\t", "-"}

\* the characters of s that are in the class, in order
keepChars(s, class) ==
    LET kept(c) == c \in class
    IN  SelectSeq(s, kept)

\* toSlug(str) of validate-artifacts.mjs, for a JS value
toSlug(str) ==
    LET lower == toLowerCase(String(orElse(str, Str(<<>>))))
        slug == sliceTo(replaceWsRuns(trim(keepChars(lower, SlugKeep)), <<"-">>), SlugMax)
    IN  IF slug = <<>> THEN S_artifact ELSE slug

\* path.basename(f, '.md') of the i-th file of the walk
baseName(i) == IF i = 1 THEN <<"a","b","-","c","d">> ELSE <<"f">> \o natDigits(i)

\* file texts: three valid records (two of them with titles of the same
\* slug) and a record with an empty title
ValTexts ==
    { recordText(R_valid, B_valid),
      recordText([R_valid EXCEPT !.title = Str(<<"A","B"," "," ","c","d","!">>)], B_valid),
      recordText([R_valid EXCEPT !.title = Str(<<"E","f">>)], B_valid),
      recordText([R_valid EXCEPT !.title = Str(<<>>)], B_valid) }

ValDirs ==
    UNION {[1..n -> ValTexts] : n \in 0..MaxValFiles}

InitValidate ==
    /\ PipelineOff
    /\ HarnessOff
    /\ run = 1
    /\ ExtractOff
    /\ \E exists \in BOOLEAN, strict \in BOOLEAN, mds \in ValDirs :
          /\ (~exists => mds = <<>>)
          /\ vArgs = [dirExists |-> exists, strict |-> strict]
          /\ vFiles = [i \in 1..Len(mds) |-> [name |-> baseName(i), md |-> mds[i]]]
    /\ vIdx = 1
    /\ results = <<>>
    /\ slugSeen = <<>>
    /\ vPc = "start"
    /\ exitCode = NoExit

\* lines 215-221
ValidateStart ==
    /\ vPc = "start"
    /\ IF ~vArgs.dirExists
       THEN exitCode' = 1 /\ vPc' = "exited"
       ELSE vPc' = "loop" /\ UNCHANGED exitCode
    /\ UNCHANGED <<vArgs, vFiles, vIdx, results, slugSeen, run>>
    /\ UNCHANGED <<pipeVars, hVars, xVars>>

\* slugSeen after lines 227-228 for a slug and a file
slugSeenPush(seen, slug, f) ==
    IF \E k \in 1..Len(seen) : seen[k].slug = slug
    THEN [k \in 1..Len(seen) |->
            IF seen[k].slug = slug THEN [seen[k] EXCEPT !.arr = Append(@, f)] ELSE seen[k]]
    ELSE Append(seen, [slug |-> slug, arr |-> <<f>>])

\* line 226: the slug of a file, from its title or else from its name
fileSlug(md, name) ==
    toSlug(orElse(fmGet(parseFrontmatter(md).fm, K_title), Str(name)))

\* lines 223-230 for one file
ValidateOne ==
    /\ vPc = "loop"
    /\ vIdx <= Len(vFiles)
    /\ LET f == vFiles[vIdx]
       IN  /\ results' = Append(results, [file |-> vIdx,
                                          errors |-> validateFile(f.md, vArgs.strict)])
           /\ slugSeen' = slugSeenPush(slugSeen, fileSlug(f.md, f.name), vIdx)
    /\ vIdx' = vIdx + 1
    /\ UNCHANGED <<vArgs, vFiles, vPc, exitCode, run>>
    /\ UNCHANGED <<pipeVars, hVars, xVars>>

\* line 224 throws (the file cannot be read); line 259 exits with 1
ValidateReadFails ==
    /\ vPc = "loop"
    /\ vIdx <= Len(vFiles)
    /\ exitCode' = 1
    /\ vPc' = "exited"
    /\ UNCHANGED <<vArgs, vFiles, vIdx, results, slugSeen, run>>
    /\ UNCHANGED <<pipeVars, hVars, xVars>>

\* the same, but the first file of a slug entry is left unmarked
RECURSIVE dupErrorsLaterOnly(_, _)
dupErrorsLaterOnly(f, seen) ==
    IF seen = <<>> THEN <<>>
    ELSE (IF Len(seen[1].arr) > 1 /\ seen[1].arr[1] # f
          THEN [k \in 1..Cardinality({j \in 1..Len(seen[1].arr) : seen[1].arr[j] = f}) |->
                  Err("duplicate title slug", seen[1].slug)]
          ELSE <<>>)
         \o dupErrorsLaterOnly(f, Tail(seen))

\* the descriptors lines 233-240 push for file f, one per slug entry with
\* more than one file and per occurrence of f in it
RECURSIVE dupErrors(_, _)
dupErrors(f, seen) ==
    IF seen = <<>> THEN <<>>
    ELSE (IF Len(seen[1].arr) > 1
          THEN [k \in 1..Cardinality({j \in 1..Len(seen[1].arr) : seen[1].arr[j] = f}) |->
                  Err("duplicate title slug", seen[1].slug)]
          ELSE <<>>)
         \o dupErrors(f, Tail(seen))

\* lines 233-240: results.find(x => x.file === f) is the first such result
markDuplicates(res, seen) ==
    [i \in 1..Len(res) |->
        IF \A j \in 1..(i - 1) : res[j].file # res[i].file
        THEN [res[i] EXCEPT !.errors = @ \o dupErrors(res[i].file, seen)]
        ELSE res[i]]

\* lines 232-240, when the first loop is over
ValidateDuplicates ==
    /\ vPc = "loop"
    /\ vIdx > Len(vFiles)
    /\ results' = markDuplicates(results, slugSeen)
    /\ vPc' = "report"
    /\ UNCHANGED <<vArgs, vFiles, vIdx, slugSeen, exitCode, run>>
    /\ UNCHANGED <<pipeVars, hVars, xVars>>

\* an exit status that does not tell invalid files from a failed run: 1 when
\* some file is invalid
exitStatusOne(bad) == IF bad # 0 THEN 1 ELSE 0

\* line 256: bad.length ? 2 : 0
exitStatus(bad) == IF bad # 0 THEN 2 ELSE 0

\* lines 242-256
ValidateExit ==
    /\ vPc = "report"
    /\ exitCode' = exitStatus(Cardinality({i \in 1..Len(results) : results[i].errors # <<>>}))
    /\ vPc' = "exited"
    /\ UNCHANGED <<vArgs, vFiles, vIdx, results, slugSeen, run>>
    /\ UNCHANGED <<pipeVars, hVars, xVars>>

NextValidate ==
    \/ ValidateStart
    \/ ValidateOne
    \/ ValidateReadFails
    \/ ValidateDuplicates
    \/ ValidateExit

SpecValidate == InitValidate /\ [][NextValidate]_vars

\* the slug the validator derives for the i-th file
slugOfFile(i) == fileSlug(vFiles[i].md, vFiles[i].name)

\* some other file of the run has the same slug
slugShared(i) == \E j \in 1..Len(vFiles) : j # i /\ slugOfFile(j) = slugOfFile(i)

\* the first loop read every file of an existing directory
walkCompleted == vArgs.dirExists /\ Len(results) = Len(vFiles)

\* C11: the validator exits with 2 iff the run over an existing directory
\* found a file with an error descriptor (a violation of its own or a
\* duplicate title slug), with 0 iff it found none, and with 1 only for a
\* missing directory or an exception
C11_ExitStatus ==
    vPc = "exited" =>
        LET invalid == {i \in 1..Len(vFiles) :
                          validateFile(vFiles[i].md, vArgs.strict) # <<>> \/ slugShared(i)}
        IN  /\ exitCode \in {0, 1, 2}
            /\ exitCode = 2 <=> (walkCompleted /\ invalid # {})
            /\ exitCode = 0 <=> (walkCompleted /\ invalid = {})
            /\ exitCode = 1 <=> ~walkCompleted

\* C11 witness: two files, each valid on its own, share a title slug and the
\* run exits with 2
C11_Witness ==
    /\ vPc = "exited"
    /\ exitCode = 2
    /\ Len(vFiles) = 2
    /\ \A i \in 1..2 : validateFile(vFiles[i].md, vArgs.strict) = <<>>

\* C12: after the cross-file pass a file carries 'duplicate title slug'
\* exactly once if another file of the run has the same slug, and not at all
\* if its slug is unique; so files that collide both carry it
C12_DuplicateTitles ==
    (walkCompleted /\ (vPc = "report" \/ (vPc = "exited" /\ exitCode # 1))) =>
        \A i \in 1..Len(vFiles) :
            errCount(results[i].errors, "duplicate title slug") =
                (IF slugShared(i) THEN 1 ELSE 0)

\* C12 witness: of three files the first two have titles of the same slug and
\* carry the descriptor, the third has its own slug and does not
C12_Witness ==
    /\ vPc = "report"
    /\ Len(vFiles) = 3
    /\ slugOfFile(1) = slugOfFile(2)
    /\ slugOfFile(3) # slugOfFile(1)
    /\ errCount(results[1].errors, "duplicate title slug") = 1
    /\ errCount(results[2].errors, "duplicate title slug") = 1
    /\ errCount(results[3].errors, "duplicate title slug") = 0

\* C16: in offline mode (--dry-run, or no API key) no remote call is made, no
\* backoff delay is taken, and every record written is the sanitized
\* heuristicNormalize of its document's body
C16_Offline ==
    (cfg.dryRun \/ ~cfg.apiKey) =>
        /\ calls = <<>>
        /\ delays = <<>>
        /\ timer = NoTimer
        /\ inflight = 0
        /\ pc \notin {"call", "await", "sleep", "afterLoop"}
        /\ \A i \in 1..Len(files) :
              written[i] # NotWritten =>
                 written[i].rec =
                    sanitize(heuristicNormalize(Body(i)), Body(i), cfg.forceLane)

\* C16 witness: a run with a key and --dry-run has finished and written its
\* first document
C16_Witness ==
    /\ cfg.dryRun
    /\ cfg.apiKey
    /\ pc = "done"
    /\ Len(files) >= 1
    /\ written[1] # NotWritten

\* C17: whatever value the remote call returned for a document, the run does
\* not end in an uncaught exception
C17_NoAbort ==
    (calls # <<>> /\ calls[Len(calls)].ok) => pc # "crashed"

\* C18: a backoff delay is taken only before a retry: when the retry loop is
\* left after c calls, c - 1 delays were taken, and there is no sleep after
\* the third call
C18_DelayOnlyBeforeRetry ==
    /\ (pc \in {"afterLoop", "sanitize", "dedup"} /\ calls # <<>>) =>
          Len(delays) = Len(calls) - 1
    /\ pc = "sleep" => Len(calls) < MaxAttempts

\* C20: a document is skipped by the dedup gate only if an earlier document of
\* the run was written with the same sanitized content
C20_OnlyTrueDuplicates ==
    \A j \in skipped :
        \E i \in 1..(j - 1) : written[i] # NotWritten /\ contents[i] = contents[j]

-----------------------------------------------------------------------------
(* extract-features.mjs: main() and processFile() *)

\* line 173: the pause after every file
PauseMs == 150

\* line 140: for (let i=0;i<3;i++)
ChatAttempts == 3

\* line 142: 500*(i+1)
ChatDelayMs == 500

\* lines 30-31: the defaults of OPENAI_MODEL and OPENAI_EMBED_MODEL
chatModel == "gpt-4o-mini"

embedModel == "text-embedding-3-small"

\* a features object of file doc: the fields computed from the text
\* (key_phrases, topics, tags, lane_probs, recommended_lane, summary, bullets)
\* are held as the pair (origin, doc); embedding and model_info are explicit
Features(origin, doc, embedding, model_info) ==
    [t |-> "obj", origin |-> origin, doc |-> doc, embedding |-> embedding,
     model_info |-> model_info]

\* lines 64-80
fallbackFeatures(doc) ==
    Features("fallback", doc, Arr(<<>>), [chatModel |-> "fallback", embedModel |-> "none"])

\* what openaiChat may return (lines 94-112): extractJSONObject hands back
\* whatever JSON.parse yields: an object, null, a number, an array
ChatValues == {Features("chat", 0, Undef, Undef), Null, Num(5), Arr(<<>>)}

\* what openaiEmbed may return (lines 114-123): the vector, or [] for a
\* response without one
EmbedValues == {Arr(<<Num(1)>>), Arr(<<>>)}

ExtractConfigs == [dryRun : BOOLEAN, apiKey : BOOLEAN]

\* the files are named by their position in the listing
ExtractLists == {[i \in 1..n |-> i] : n \in 0..MaxDocs}

Call(kind, ok) == [kind |-> kind, ok |-> ok]

\* if (!dryRun && apiKey), line 137
xUseRemote == ~xCfg.dryRun /\ xCfg.apiKey

\* the variables extract-features.mjs does not touch
notExtractVars == <<pipeVars, hVars, run, valVars>>

InitExtract ==
    /\ PipelineOff
    /\ HarnessOff
    /\ run = 1
    /\ ValidatorOff
    /\ xCfg \in ExtractConfigs
    /\ xFiles \in ExtractLists
    /\ xIdx = 1
    /\ xPc = "start"
    /\ xI = 0
    /\ features = Undef
    /\ xCalls = <<>>
    /\ xDelays = <<>>
    /\ xTimer = NoTimer
    /\ xInflight = 0
    /\ xWritten = [i \in 1..Len(xFiles) |-> Undef]

\* lines 165-167
XStart ==
    /\ xPc = "start"
    /\ xPc' = IF Len(xFiles) = 0 THEN "done" ELSE "read"
    /\ UNCHANGED <<xCfg, xFiles, xIdx, xI, features, xCalls, xDelays, xTimer, xInflight,
                   xWritten>>
    /\ UNCHANGED notExtractVars

\* lines 169-171 and 130-140, 157-159: processFile up to the choice of path
XReadFile ==
    /\ xPc = "read"
    /\ xI' = 0
    /\ xCalls' = <<>>
    /\ xDelays' = <<>>
    /\ xTimer' = NoTimer
    /\ IF xUseRemote
       THEN /\ features' = Undef
            /\ xPc' = "chat"
       ELSE /\ features' = fallbackFeatures(xFiles[xIdx])
            /\ xPc' = "write"
    /\ UNCHANGED <<xCfg, xFiles, xIdx, xInflight, xWritten>>
    /\ UNCHANGED notExtractVars

\* line 141: the chat request is sent
XStartChat ==
    /\ xPc = "chat"
    /\ xInflight' = xInflight + 1
    /\ xPc' = "awaitChat"
    /\ UNCHANGED <<xCfg, xFiles, xIdx, xI, features, xCalls, xDelays, xTimer, xWritten>>
    /\ UNCHANGED notExtractVars

\* a request that is never awaited stays in flight
requestPending(n) == n

\* the awaited request has settled
requestSettled(n) == n - 1

\* line 141: the call returns; break
XChatOk ==
    /\ xPc = "awaitChat"
    /\ \E v \in ChatValues :
          features' = IF v.t = "obj" THEN [v EXCEPT !.doc = xFiles[xIdx]] ELSE v
    /\ xCalls' = Append(xCalls, Call("chat", TRUE))
    /\ xInflight' = requestSettled(xInflight)
    /\ xPc' = "afterChat"
    /\ UNCHANGED <<xCfg, xFiles, xIdx, xI, xDelays, xTimer, xWritten>>
    /\ UNCHANGED notExtractVars

\* the delay of line 142
chatDelay(i) == ChatDelayMs * (i + 1)

\* line 142: the call throws; the timer is set
XChatFail ==
    /\ xPc = "awaitChat"
    /\ xCalls' = Append(xCalls, Call("chat", FALSE))
    /\ xInflight' = requestSettled(xInflight)
    /\ xDelays' = Append(xDelays, chatDelay(xI))
    /\ xTimer' = [delay |-> chatDelay(xI), elapsed |-> 0]
    /\ xPc' = "sleep"
    /\ UNCHANGED <<xCfg, xFiles, xIdx, xI, features, xWritten>>
    /\ UNCHANGED notExtractVars

\* time passes while main() is suspended in the await of line 142 or 173
XTick ==
    /\ xPc \in {"sleep", "pause"}
    /\ xTimer.elapsed < xTimer.delay
    /\ xTimer' = [xTimer EXCEPT !.elapsed = @ + TickMs]
    /\ UNCHANGED <<xCfg, xFiles, xIdx, xPc, xI, features, xCalls, xDelays, xInflight,
                   xWritten>>
    /\ UNCHANGED notExtractVars

\* lines 140-142: the timer fires, i++, the loop condition is tested
XWake ==
    /\ xPc = "sleep"
    /\ timerDue(xTimer)
    /\ xI' = xI + 1
    /\ xPc' = IF xI + 1 < ChatAttempts THEN "chat" ELSE "afterChat"
    /\ UNCHANGED <<xCfg, xFiles, xIdx, features, xCalls, xDelays, xTimer, xInflight,
                   xWritten>>
    /\ UNCHANGED notExtractVars

\* lines 144-147
XAfterChat ==
    /\ xPc = "afterChat"
    /\ features' = IF ~truthy(features) THEN fallbackFeatures(xFiles[xIdx]) ELSE features
    /\ xPc' = "embed"
    /\ UNCHANGED <<xCfg, xFiles, xIdx, xI, xCalls, xDelays, xTimer, xInflight, xWritten>>
    /\ UNCHANGED notExtractVars

\* line 149: the embedding request is sent
XStartEmbed ==
    /\ xPc = "embed"
    /\ xInflight' = xInflight + 1
    /\ xPc' = "awaitEmbed"
    /\ UNCHANGED <<xCfg, xFiles, xIdx, xI, features, xCalls, xDelays, xTimer, xWritten>>
    /\ UNCHANGED notExtractVars

\* features.embedding = ... throws a TypeError on a primitive: the script is
\* an ES module and runs in strict mode
setThrows(f) == f.t \notin {"obj", "arr"}

\* features.embedding = e; features.model_info = m (lines 150-151, 154-155).
\* On an array the two named properties are set but JSON.stringify (line
\* 161) writes the elements only, so they are not carried
setEmbedding(f, e, m) ==
    IF f.t = "obj" THEN [f EXCEPT !.embedding = e, !.model_info = m] ELSE f

\* lines 149-151: the call returns.  If the assignment of line 150 throws,
\* the catch block runs and its own assignment (line 154) throws again, out
\* of processFile and main(), to the handler of line 178
XEmbedOk ==
    /\ xPc = "awaitEmbed"
    /\ xCalls' = Append(xCalls, Call("embed", TRUE))
    /\ xInflight' = requestSettled(xInflight)
    /\ IF setThrows(features)
       THEN /\ xPc' = "crashed"
            /\ UNCHANGED features
       ELSE /\ \E e \in EmbedValues :
                  features' = setEmbedding(features, e,
                                 [chatModel |-> chatModel, embedModel |-> embedModel])
            /\ xPc' = "write"
    /\ UNCHANGED <<xCfg, xFiles, xIdx, xI, xDelays, xTimer, xWritten>>
    /\ UNCHANGED notExtractVars

\* lines 152-156: the call throws and the catch block runs
XEmbedFail ==
    /\ xPc = "awaitEmbed"
    /\ xCalls' = Append(xCalls, Call("embed", FALSE))
    /\ xInflight' = requestSettled(xInflight)
    /\ IF setThrows(features)
       THEN /\ xPc' = "crashed"
            /\ UNCHANGED features
       ELSE /\ features' = setEmbedding(features, Arr(<<>>),
                              [chatModel |-> chatModel, embedModel |-> "failed"])
            /\ xPc' = "write"
    /\ UNCHANGED <<xCfg, xFiles, xIdx, xI, xDelays, xTimer, xWritten>>
    /\ UNCHANGED notExtractVars

\* lines 161 and 172-173: the record is written, then the pause begins
XWrite ==
    /\ xPc = "write"
    /\ xWritten' = [xWritten EXCEPT ![xIdx] = features]
    /\ xDelays' = Append(xDelays, PauseMs)
    /\ xTimer' = [delay |-> PauseMs, elapsed |-> 0]
    /\ xPc' = "pause"
    /\ UNCHANGED <<xCfg, xFiles, xIdx, xI, features, xCalls, xInflight>>
    /\ UNCHANGED notExtractVars

\* lines 168 and 173-175: the pause is over, the loop goes on
XNextFile ==
    /\ xPc = "pause"
    /\ timerDue(xTimer)
    /\ xIdx' = xIdx + 1
    /\ xPc' = IF xIdx = Len(xFiles) THEN "done" ELSE "read"
    /\ UNCHANGED <<xCfg, xFiles, xI, features, xCalls, xDelays, xTimer, xInflight,
                   xWritten>>
    /\ UNCHANGED notExtractVars

NextExtract ==
    \/ XStart
    \/ XReadFile
    \/ XStartChat
    \/ XChatOk
    \/ XChatFail
    \/ XTick
    \/ XWake
    \/ XAfterChat
    \/ XStartEmbed
    \/ XEmbedOk
    \/ XEmbedFail
    \/ XWrite
    \/ XNextFile

SpecExtract == InitExtract /\ [][NextExtract]_vars

\* one of the two scripts that call the remote service is run
InitScripts == Init \/ InitExtract

NextScripts ==
    \/ Start
    \/ ReadFile
    \/ StartCall
    \/ CallFail
    \/ CallOk
    \/ Tick
    \/ Wake
    \/ AfterLoop
    \/ Sanitize
    \/ DedupWrite
    \/ XStart
    \/ XReadFile
    \/ XStartChat
    \/ XChatOk
    \/ XChatFail
    \/ XTick
    \/ XWake
    \/ XAfterChat
    \/ XStartEmbed
    \/ XEmbedOk
    \/ XEmbedFail
    \/ XWrite
    \/ XNextFile

SpecScripts == InitScripts /\ [][NextScripts]_vars

-----------------------------------------------------------------------------
(* Properties of the two scripts that call the remote service *)

\* document i of the normalize run has been written or skipped
settled(i) == written[i] # NotWritten \/ i \in skipped

\* C13: the documents are processed in listing order, a document's remote
\* calls are issued only after every earlier document has been written or
\* skipped, and at most one remote request is in flight
C13_Sequential ==
    /\ inflight + xInflight <= 1
    /\ inflight = 1 <=> pc = "await"
    /\ xInflight = 1 <=> xPc \in {"awaitChat", "awaitEmbed"}
    /\ \A i \in 1..Len(files) : settled(i) <=> i < idx
    /\ \A i \in 1..Len(xFiles) :
          xWritten[i] # Undef <=> (i < xIdx \/ (i = xIdx /\ xPc = "pause"))

\* C13 witness: the embedding request of the second file is in flight and
\* the first file has been written
C13_Witness ==
    /\ xPc = "awaitEmbed"
    /\ xIdx = 2
    /\ xInflight = 1
    /\ xWritten[1] # Undef

\* the embedding call of the file processFile last worked on threw
embedFailed == xCalls # <<>> /\ xCalls[Len(xCalls)] = Call("embed", FALSE)

\* the file processFile last worked on
lastFile == IF xPc \in {"read", "done"} THEN xIdx - 1 ELSE xIdx

\* C14: when the embedding call fails, whatever the chat step produced, no
\* exception leaves processFile and the feature record is written with an
\* empty embedding and model_info.embedModel = 'failed'
C14_EmbedFailure ==
    embedFailed =>
        /\ xPc # "crashed"
        /\ xPc \in {"pause", "read", "done"} =>
              /\ xWritten[lastFile].t = "obj"
              /\ xWritten[lastFile].embedding = Arr(<<>>)
              /\ xWritten[lastFile].model_info.embedModel = "failed"

\* C19: in both scripts the next document begins only after a pause has been
\* waited, when the remote call of the document before it succeeded: one
\* delay per failed call and the pause
C19_PauseAfterSuccess ==
    /\ (pc = "read" /\ idx > 1 /\ calls # <<>> /\ calls[Len(calls)].ok) =>
          Len(delays) = Len(calls)
    /\ (xPc = "read" /\ xIdx > 1 /\ 
        (\E k \in 1..Len(xCalls) : xCalls[k] = Call("chat", TRUE))) =>
          /\ xDelays # <<>>
          /\ xDelays[Len(xDelays)] = PauseMs
          /\ xTimer.delay = PauseMs
          /\ timerDue(xTimer)

-----------------------------------------------------------------------------
(* normalize-drafts.mjs run again over the same input directory *)

\* number of runs of main() over the directory
MaxRuns == 2

\* number of drafts in the directory that is normalized repeatedly
RerunDocs == 1

\* the directory of the repeated runs; --lane is not given
InitRerun ==
    /\ InitPipeline
    /\ cfg.forceLane = Str(<<>>)
    /\ Len(files) <= RerunDocs
    /\ HarnessOff
    /\ OthersOff

\* the script is started again with the same flags: main() begins with a new
\* seenHashes (line 168) and the same listing (line 161); the output
\* directory keeps the files of the run before
Rerun ==
    /\ pc = "done"
    /\ run < MaxRuns
    /\ run' = run + 1
    /\ pc' = "start"
    /\ idx' = 1
    /\ attempt' = 0
    /\ normalized' = Undef
    /\ handed' = Undef
    /\ seenHashes' = {}
    /\ skipped' = {}
    /\ contents' = [i \in 1..Len(files) |-> <<>>]
    /\ calls' = <<>>
    /\ delays' = <<>>
    /\ timer' = NoTimer
    /\ UNCHANGED <<cfg, files, written, inflight>>
    /\ UNCHANGED hVars
    /\ UNCHANGED <<valVars, xVars>>

NextRerun ==
    \/ Start
    \/ ReadFile
    \/ StartCall
    \/ CallFail
    \/ CallOk
    \/ Tick
    \/ Wake
    \/ AfterLoop
    \/ Sanitize
    \/ DedupWrite
    \/ Rerun

SpecRerun == InitRerun /\ [][NextRerun]_vars

\* C15: a record file that has been written is never changed or replaced, by
\* a later step of the run or by a later run over the same input directory
C15_WriteOnce ==
    [][\A i \in 1..Len(files) : written[i] # NotWritten => written'[i] = written[i]]_vars

=============================================================================
